---- MODULE Spec2Model ----
(***************************************************************************)
(* Model of the MixCare doctor list (src/unnamed/part_000, the current     *)
(* page script, and src/script.js, its earlier version).                   *)
(*                                                                         *)
(* Representation of JavaScript values:                                    *)
(*   - a string is a sequence of characters; a character is a one-letter   *)
(*     TLA+ string, or a token "uXXXX" for the CJK code point U+XXXX;      *)
(*   - `undefined` (an absent JSON field) is the value  undefined  below,  *)
(*     which is no string;                                                 *)
(*   - an object used as a map (doc.names, ...) is a sequence of           *)
(*     [k, v] pairs in key insertion order, which is the order             *)
(*     Object.keys / Object.values enumerate non-numeric keys in;          *)
(*   - an array is a sequence; a Map is a sequence of [k, v] pairs in      *)
(*     insertion order; a Set is a sequence without repetitions in         *)
(*     insertion order.                                                    *)
(***************************************************************************)
EXTENDS Naturals, Sequences, FiniteSets, TLC

VARIABLES
    pc,               \* where the run is: see the specifications below
    rawData,          \* let rawData (part_000:2): the fetched JSON array; <<>> for null
    showAllRecords,   \* let showAllRecords (part_000:72)
    doctors,          \* let doctors (part_000:71): the Entity collection
    langSelect,       \* langSelect.value
    searchInput,      \* searchInput.value
    specialtySelect,  \* <select>: [opts |-> option values, idx |-> selected option, 0 = none]
    citySelect,
    districtSelect,
    areaSelect,
    citiesMap,        \* window.__citiesMap; <<>>, a Map without keys, while undefined
    results,          \* what resultsEl shows: [kind, list]
    resultCount,      \* what resultCountEl shows: [kind, n]
    urlLang,          \* the `lang` query parameter of location.href, undefined if none
    pathSeg,          \* the first segment of location.pathname, "" if none
    last,             \* history: the last event handled and the cascade before it
    returned          \* history: the call made last of a function called on its own

vars == <<pc, rawData, showAllRecords, doctors, langSelect, searchInput,
          specialtySelect, citySelect, districtSelect, areaSelect, citiesMap,
          results, resultCount, urlLang, pathSeg, last, returned>>

----------------------------------------------------------------------------
(* Strings *)

undefined == <<"undefined">>

\* JavaScript truthiness of a string-or-undefined value
Truthy(v) == v # undefined /\ v # <<>>

\* v || d
Or(v, d) == IF Truthy(v) THEN v ELSE d

\* The characters of the model in UTF-16 code unit order; CharCode is
\* order-isomorphic to charCodeAt on them.
Alphabet ==
    <<" ", "(", ")", "+", "-", "0", "1", "2", "3", "4", "5", "6", "7", "8", "9",
      "A", "B", "C", "D", "E", "F", "G", "H", "I", "J", "K", "L", "M", "N", "O",
      "P", "Q", "R", "S", "T", "U", "V", "W", "X", "Y", "Z", "_",
      "a", "b", "c", "d", "e", "f", "g", "h", "i", "j", "k", "l", "m", "n", "o",
      "p", "q", "r", "s", "t", "u", "v", "w", "x", "y", "z",
      "u30bb", "u30bd", "u30bf", "u30db", "u4e2d", "u4ed4", "u5168",
      "u5185", "u666e", "u6c39", "u6e2f", "u6fb3", "u7063", "u7259",
      "u73af", "u74b0", "u79d1", "u82cf", "u8607", "u8c6a", "u9580",
      "u9648", "u9673", "u9999">>

CharCodes ==
    [c \in {Alphabet[i] : i \in 1..Len(Alphabet)} |->
        CHOOSE i \in 1..Len(Alphabet) : Alphabet[i] = c]

CharCode(c) == CharCodes[c]

UpperCase == <<"A", "B", "C", "D", "E", "F", "G", "H", "I", "J", "K", "L", "M",
               "N", "O", "P", "Q", "R", "S", "T", "U", "V", "W", "X", "Y", "Z">>
LowerCase == <<"a", "b", "c", "d", "e", "f", "g", "h", "i", "j", "k", "l", "m",
               "n", "o", "p", "q", "r", "s", "t", "u", "v", "w", "x", "y", "z">>

LowerCaseOf ==
    [c \in {UpperCase[i] : i \in 1..Len(UpperCase)} |->
        LowerCase[CHOOSE i \in 1..Len(UpperCase) : UpperCase[i] = c]]

toLowerCaseChar(c) == IF c \in DOMAIN LowerCaseOf THEN LowerCaseOf[c] ELSE c

\* String.prototype.toLowerCase
toLowerCase(s) == [i \in 1..Len(s) |-> toLowerCaseChar(s[i])]

\* String.prototype.trim (the only white space of the model is " ")
RECURSIVE trimStart(_)
trimStart(s) == IF s # <<>> /\ Head(s) = " " THEN trimStart(Tail(s)) ELSE s

RECURSIVE trimEnd(_)
trimEnd(s) ==
    IF s # <<>> /\ s[Len(s)] = " " THEN trimEnd(SubSeq(s, 1, Len(s) - 1)) ELSE s

trim(s) == trimEnd(trimStart(s))

\* String.prototype.includes
includes(hay, needle) ==
    \E i \in 0..Len(hay) :
        /\ i + Len(needle) <= Len(hay)
        /\ SubSeq(hay, i + 1, i + Len(needle)) = needle

\* Array.prototype.join
RECURSIVE join(_, _)
join(arr, sep) ==
    IF arr = <<>> THEN <<>>
    ELSE IF Len(arr) = 1 THEN arr[1]
    ELSE arr[1] \o sep \o join(Tail(arr), sep)

\* the decimal digits of a number, as template literals print it
Digits == <<"0", "1", "2", "3", "4", "5", "6", "7", "8", "9">>

RECURSIVE numberToString(_)
numberToString(n) ==
    IF n < 10 THEN <<Digits[n + 1]>>
    ELSE numberToString(n \div 10) \o <<Digits[(n % 10) + 1]>>

\* a < b in the order Array.prototype.sort() uses by default (code units)
RECURSIVE stringLess(_, _)
stringLess(a, b) ==
    IF b = <<>> THEN FALSE
    ELSE IF a = <<>> THEN TRUE
    ELSE IF Head(a) = Head(b) THEN stringLess(Tail(a), Tail(b))
    ELSE CharCode(Head(a)) < CharCode(Head(b))

\* [...xs].sort() on a sequence of distinct strings
RECURSIVE sort(_)
sort(xs) ==
    IF xs = <<>> THEN <<>>
    ELSE LET m == CHOOSE i \in 1..Len(xs) :
                      \A j \in 1..Len(xs) : j = i \/ stringLess(xs[i], xs[j])
         IN  <<xs[m]>> \o sort(SubSeq(xs, 1, m - 1) \o SubSeq(xs, m + 1, Len(xs)))

----------------------------------------------------------------------------
(* Objects used as maps, Maps and Sets, in insertion order *)

has(m, k) == \E i \in 1..Len(m) : m[i].k = k

\* m[k]: the value, or undefined
get(m, k) ==
    IF has(m, k) THEN m[CHOOSE i \in 1..Len(m) : m[i].k = k].v ELSE undefined

\* m[k] = v, or map.set(k, v): an existing key keeps its position
set(m, k, v) ==
    IF has(m, k)
    THEN [i \in 1..Len(m) |-> IF m[i].k = k THEN [k |-> k, v |-> v] ELSE m[i]]
    ELSE Append(m, [k |-> k, v |-> v])

\* Object.values(m), Array.from(map.values())
values(m) == [i \in 1..Len(m) |-> m[i].v]

\* Object.keys(m), [...map.keys()]
keys(m) == [i \in 1..Len(m) |-> m[i].k]

\* set.add(x)
add(s, x) == IF \E i \in 1..Len(s) : s[i] = x THEN s ELSE Append(s, x)

----------------------------------------------------------------------------
(* Language tags and field names *)

en == <<"e", "n">>
zhHK == <<"z", "h", "-", "H", "K">>
zhCN == <<"z", "h", "-", "C", "N">>

\* the fields of a raw row that feed a per-language map, with the map they feed
LocalizableFields ==
    <<[field |-> "doc_name", key |-> "names"],
      [field |-> "doc_address", key |-> "addresses"],
      [field |-> "doc_tel_A", key |-> "phones"],
      [field |-> "doc_cat_name", key |-> "specialties"],
      [field |-> "doc_wh", key |-> "openings"],
      [field |-> "doc_remark", key |-> "remarks"],
      [field |-> "area_name", key |-> "areas"],
      [field |-> "district_name", key |-> "districts"],
      [field |-> "city_name", key |-> "cities"]>>

----------------------------------------------------------------------------
(* Normalizer *)

\* mutant: the first row of a language wins, later rows are ignored
setIf_firstWins(m, lang, v) == IF Truthy(v) /\ ~has(m, lang) THEN set(m, lang, v) ELSE m

\* if (item.f) m[lang] = item.f
setIf(m, lang, v) == IF Truthy(v) THEN set(m, lang, v) ELSE m

\* the object created for the first row of an identifier (part_000:12-27)
newDoc(id, item) ==
    [id |-> id,
     names |-> <<>>,
     addresses |-> <<>>,
     address |-> Or(item.doc_address, <<>>),
     phones |-> <<>>,
     specialties |-> <<>>,
     openings |-> <<>>,
     remarks |-> <<>>,
     areas |-> <<>>,
     districts |-> <<>>,
     cities |-> <<>>,
     lat |-> Or(item.doc_lat, <<>>),
     lng |-> Or(item.doc_long, <<>>),
     cta_link |-> Or(item.cta_link, <<>>)]

\* mutant: a later row overwrites the coordinate
keepIfPresent_overwrite(cur, v) == IF Truthy(v) THEN v ELSE cur

\* if (!doc.lat && item.doc_lat) doc.lat = item.doc_lat (part_000:41-42)
keepIfPresent(cur, v) == IF ~Truthy(cur) /\ Truthy(v) THEN v ELSE cur

\* mutant: every row appends its own entry to the maps, an entry of the
\* same language staying where it is
mergeRow_append(doc, item, lang) ==
    [doc EXCEPT
        !.names = Append(@, [k |-> lang, v |-> Or(item.doc_name, <<>>)]),
        !.cities = IF Truthy(item.city_name)
                   THEN Append(@, [k |-> lang, v |-> item.city_name]) ELSE @]

\* the body of the forEach after map.get(id) (part_000:29-42)
mergeRow(doc, item, lang) ==
    [doc EXCEPT
        !.names = set(@, lang, Or(item.doc_name, Or(get(@, lang), <<>>))),
        !.addresses = setIf(@, lang, item.doc_address),
        !.phones = setIf(@, lang, item.doc_tel_A),
        !.specialties = setIf(@, lang, item.doc_cat_name),
        !.openings = setIf(@, lang, item.doc_wh),
        !.remarks = setIf(@, lang, item.doc_remark),
        !.areas = setIf(@, lang, item.area_name),
        !.districts = setIf(@, lang, item.district_name),
        !.cities = setIf(@, lang, item.city_name),
        !.lat = keepIfPresent(@, item.doc_lat),
        !.lng = keepIfPresent(@, item.doc_long)]

\* mutant: the identifier is item.doc_id itself, as in script.js, so that a
\* row without identifier and a row with identifier "" are kept apart
mergeItem_rawId(map, item) ==
    LET id == item.doc_id
        lang == Or(item.lang, en)
        map1 == IF ~has(map, id) THEN set(map, id, newDoc(id, item)) ELSE map
    IN  set(map1, id, mergeRow(get(map1, id), item, lang))

\* one iteration of data.forEach (part_000:8-43) on the Map built so far
mergeItem(map, item) ==
    LET id == Or(item.doc_id, <<>>)
        lang == Or(item.lang, en)
        map1 == IF ~has(map, id) THEN set(map, id, newDoc(id, item)) ELSE map
    IN  set(map1, id, mergeRow(get(map1, id), item, lang))

RECURSIVE mergeAll(_, _)
mergeAll(map, data) ==
    IF data = <<>> THEN map ELSE mergeAll(mergeItem(map, Head(data)), Tail(data))

mergeByDocId(data) == values(mergeAll(<<>>, data))

\* mutant: the identity leaves the row position out
perRowId_noIdx(item, lang, idx) == Or(item.doc_id, <<>>) \o <<"_">> \o lang

\* `${item.doc_id || ''}_${lang}_${idx}` (part_000:52)
perRowId(item, lang, idx) ==
    Or(item.doc_id, <<>>) \o <<"_">> \o lang \o <<"_">> \o numberToString(idx)

\* the object of one row (part_000:50-67); idx is the 0-based array index
perRowItem(item, idx) ==
    LET lang == Or(item.lang, en)
        one(v) == <<[k |-> lang, v |-> Or(v, <<>>)]>>
    IN  [id |-> perRowId(item, lang, idx),
         baseId |-> Or(item.doc_id, <<>>),
         names |-> one(item.doc_name),
         addresses |-> one(item.doc_address),
         address |-> Or(item.doc_address, <<>>),
         phones |-> one(item.doc_tel_A),
         specialties |-> one(item.doc_cat_name),
         openings |-> one(item.doc_wh),
         remarks |-> one(item.doc_remark),
         areas |-> one(item.area_name),
         districts |-> one(item.district_name),
         cities |-> one(item.city_name),
         lat |-> Or(item.doc_lat, <<>>),
         lng |-> Or(item.doc_long, <<>>),
         cta_link |-> Or(item.cta_link, <<>>)]

normalizePerRow(data) == [i \in 1..Len(data) |-> perRowItem(data[i], i - 1)]

\* script.js: the object created for the first row of an identifier (script.js:9-22)
script_newDoc(id, item) ==
    [id |-> id,
     names |-> <<>>,
     address |-> Or(item.doc_address, <<>>),
     phones |-> <<>>,
     specialties |-> <<>>,
     openings |-> <<>>,
     areas |-> <<>>,
     districts |-> <<>>,
     cities |-> <<>>,
     lat |-> Or(item.doc_lat, <<>>),
     lng |-> Or(item.doc_long, <<>>),
     cta_link |-> Or(item.cta_link, <<>>)]

\* script.js: one iteration of data.forEach (script.js:6-36); the identifier
\* is item.doc_id itself, undefined included
script_mergeItem(map, item) ==
    LET id == item.doc_id
        lang == Or(item.lang, en)
        map1 == IF ~has(map, id) THEN set(map, id, script_newDoc(id, item)) ELSE map
        doc == get(map1, id)
    IN  set(map1, id,
            [doc EXCEPT
                !.names = set(@, lang, Or(item.doc_name, Or(get(@, lang), <<>>))),
                !.specialties = setIf(@, lang, item.doc_cat_name),
                !.openings = setIf(@, lang, item.doc_wh),
                !.areas = setIf(@, lang, item.area_name),
                !.districts = setIf(@, lang, item.district_name),
                !.cities = setIf(@, lang, item.city_name),
                !.phones = setIf(@, lang, item.doc_tel_A)])

RECURSIVE script_mergeAll(_, _)
script_mergeAll(map, data) ==
    IF data = <<>> THEN map
    ELSE script_mergeAll(script_mergeItem(map, Head(data)), Tail(data))

script_mergeByDocId(data) == values(script_mergeAll(<<>>, data))

----------------------------------------------------------------------------
(* The page before the data arrives *)

\* a <select> holding only its static first option (value ""), selected
staticSelect == [opts |-> <<<<>>>>, idx |-> 1]

\* select.value: the value of the selected option, "" when none is selected
value(sel) == IF sel.idx = 0 THEN <<>> ELSE sel.opts[sel.idx]

\* the selections of the cascade: city, district, area
Cascade ==
    [city |-> value(citySelect), district |-> value(districtSelect),
     area |-> value(areaSelect)]

NoEvent == [event |-> "none", before |-> [city |-> <<>>, district |-> <<>>, area |-> <<>>]]

\* no call recorded yet
NoCall == [fn |-> "none", args |-> <<>>, value |-> <<>>]

\* the controls as the HTML gives them: English, nothing typed, every
\* select with its static option only
ControlsInit ==
    /\ langSelect = en
    /\ searchInput = <<>>
    /\ specialtySelect = staticSelect
    /\ citySelect = staticSelect
    /\ districtSelect = staticSelect
    /\ areaSelect = staticSelect

\* the rest of the page once the script has run up to the await of fetch
\* (part_000:76-80): "Loading..." is shown, nothing is rendered
OutputInit ==
    /\ citiesMap = <<>>
    /\ results = [kind |-> "initial", list |-> <<>>]
    /\ resultCount = [kind |-> "loading", n |-> 0]
    /\ last = NoEvent
    /\ returned = NoCall

PageInit == ControlsInit /\ OutputInit /\ urlLang = undefined /\ pathSeg = <<>>

pageVars == <<langSelect, searchInput, specialtySelect, citySelect, districtSelect,
              areaSelect, citiesMap, results, resultCount, urlLang, pathSeg, last,
              returned>>

----------------------------------------------------------------------------
(* The page as one value: the functions of the script read and write the   *)
(* globals and the DOM, so each is an operator from a page to a page.      *)

Page ==
    [doctors |-> doctors, langSelect |-> langSelect, searchInput |-> searchInput,
     specialtySelect |-> specialtySelect, citySelect |-> citySelect,
     districtSelect |-> districtSelect, areaSelect |-> areaSelect,
     citiesMap |-> citiesMap, results |-> results, resultCount |-> resultCount,
     urlLang |-> urlLang]

\* the page a handler leaves becomes the page
Install(p) ==
    \E q \in {p} :
        /\ doctors' = q.doctors
        /\ langSelect' = q.langSelect
        /\ searchInput' = q.searchInput
        /\ specialtySelect' = q.specialtySelect
        /\ citySelect' = q.citySelect
        /\ districtSelect' = q.districtSelect
        /\ areaSelect' = q.areaSelect
        /\ citiesMap' = q.citiesMap
        /\ results' = q.results
        /\ resultCount' = q.resultCount
        /\ urlLang' = q.urlLang

\* A handler is a sequence of statements, each running on the page the
\* previous one has left: {statement(q) : q \in {p}} holds the one page the
\* statement leaves of p, and the(S) is the page of such a set.
the(S) == CHOOSE q \in S : TRUE

\* select.appendChild(option): the selection stays; a select without a
\* selected option selects its first one
appendOption(sel, v) ==
    [opts |-> Append(sel.opts, v), idx |-> IF sel.idx = 0 THEN 1 ELSE sel.idx]

RECURSIVE appendOptions(_, _)
appendOptions(sel, vs) ==
    IF vs = <<>> THEN sel ELSE appendOptions(appendOption(sel, Head(vs)), Tail(vs))

\* select.value = v: the first option of that value, none when there is none
setValue(sel, v) ==
    [sel EXCEPT !.idx = IF \E i \in 1..Len(sel.opts) : sel.opts[i] = v
                        THEN CHOOSE i \in 1..Len(sel.opts) :
                                /\ sel.opts[i] = v
                                /\ \A j \in 1..(i - 1) : sel.opts[j] # v
                        ELSE 0]

\* d.specialty, d.city, ...: a property the Entity may not have
prop(d, name) == IF name \in DOMAIN d THEN d[name] ELSE undefined

\* plural[field] || (field + 's') (part_000:177-188)
plural(field) ==
    CASE field = "name" -> "names"
      [] field = "address" -> "addresses"
      [] field = "specialty" -> "specialties"
      [] field = "opening" -> "openings"
      [] field = "area" -> "areas"
      [] field = "district" -> "districts"
      [] field = "city" -> "cities"
      [] field = "phone" -> "phones"
      [] field = "remark" -> "remarks"

\* mutant: the requested language only, no fallback
tData_noFallback(p, doc, field, lang) ==
    LET l == Or(lang, Or(p.langSelect, en))
        map == IF plural(field) \in DOMAIN doc THEN doc[plural(field)] ELSE <<>>
    IN  Or(get(map, l), <<>>)

\* mutant: English is the first fallback
tData_enFirst(p, doc, field, lang) ==
    LET l == Or(lang, Or(p.langSelect, en))
        map == IF plural(field) \in DOMAIN doc THEN doc[plural(field)] ELSE <<>>
    IN  Or(get(map, l), Or(get(map, en), Or(get(map, zhHK), Or(get(map, zhCN), <<>>))))

\* tData (part_000:174-194); the maps of an Entity are always objects
tData(p, doc, field, lang) ==
    LET l == Or(lang, Or(p.langSelect, en))
        map == IF plural(field) \in DOMAIN doc THEN doc[plural(field)] ELSE <<>>
    IN  Or(get(map, l), Or(get(map, zhHK), Or(get(map, zhCN), Or(get(map, en), <<>>))))

\* tData(d, field, lang) || d[field] || '' (part_000:226-231)
label(p, d, field, lang) == Or(tData(p, d, field, lang), Or(prop(d, field), <<>>))

\* map.get(k) || new Map(), map.get(k) || new Set()
getOrEmpty(m, k) == IF has(m, k) THEN get(m, k) ELSE <<>>

\* the body of the doctors.forEach callback of populateFilters once the four
\* labels are known (part_000:227, 232-236): the specialty joins its Set; a
\* city not seen yet gets a Map, a district not seen yet in it a Set, and the
\* area joins that Set. A key seen before keeps its place.
populateLabels(acc, spec, cityLabel, districtLabel, areaLabel) ==
    LET districtMap == getOrEmpty(acc.cities, cityLabel)
        areaSet == getOrEmpty(districtMap, districtLabel)
    IN  [specialties |-> IF Truthy(spec) THEN add(acc.specialties, spec)
                         ELSE acc.specialties,
         cities |-> set(acc.cities, cityLabel,
                        set(districtMap, districtLabel,
                            IF Truthy(areaLabel) THEN add(areaSet, areaLabel)
                            ELSE areaSet))]

\* one iteration of doctors.forEach in populateFilters (part_000:225-237)
populateStep(p, acc, d, lang) ==
    the({populateLabels(a, spec, cityLabel, districtLabel, areaLabel) :
            a \in {acc},
            spec \in {label(p, d, "specialty", lang)},
            cityLabel \in {label(p, d, "city", lang)},
            districtLabel \in {label(p, d, "district", lang)},
            areaLabel \in {label(p, d, "area", lang)}})

RECURSIVE populateAll(_, _, _, _)
populateAll(p, acc, docs, lang) ==
    IF docs = <<>> THEN acc
    ELSE populateAll(p, populateStep(p, acc, Head(docs), lang), Tail(docs), lang)

\* populateFilters (part_000:219-250)
populateFilters(p) ==
    LET lang == Or(p.langSelect, en)
        built == {populateAll(p, [specialties |-> <<>>, cities |-> <<>>], p.doctors, lang)}
    IN  the({[p EXCEPT
                 !.specialtySelect = appendOptions(@, sort(acc.specialties)),
                 !.citySelect = appendOptions(@, sort(keys(acc.cities))),
                 !.citiesMap = acc.cities] : acc \in built})

\* window.__citiesMap && (city in Object.fromEntries(window.__citiesMap)):
\* false while window.__citiesMap is undefined, as for a Map without keys.
\* (`in` also finds the names Object.prototype defines, "constructor" and
\* the like; no label of the model is one of them.)
inCitiesMap(p, city) == has(p.citiesMap, city)

\* if (x) set.add(x), for every x of xs in turn
RECURSIVE addAll(_, _)
addAll(st, xs) ==
    IF xs = <<>> THEN st
    ELSE addAll(IF Truthy(Head(xs)) THEN add(st, Head(xs)) ELSE st, Tail(xs))

\* the options updateDistrictsForCity appends (part_000:283-302)
districtOptions(p, city) ==
    LET lang == Or(p.langSelect, en)
        fromMap == sort(keys(getOrEmpty(p.citiesMap, city)))
        matching(d) == city = <<>> \/ label(p, d, "city", lang) = city
        districts ==
            addAll(<<>>, [i \in 1..Len(p.doctors) |->
                            IF matching(p.doctors[i])
                            THEN label(p, p.doctors[i], "district", lang) ELSE <<>>])
    IN  IF inCitiesMap(p, city) THEN fromMap ELSE sort(districts)

\* mutant: the options are appended to the list as it is, without emptying
\* the select first, so that the selected district stays selected
updateDistrictsForCity_noReset(p, city) ==
    [p EXCEPT
        !.districtSelect = appendOptions(@, districtOptions(p, city)),
        !.areaSelect = staticSelect]

\* updateDistrictsForCity (part_000:277-303)
updateDistrictsForCity(p, city) ==
    [p EXCEPT
        !.districtSelect = appendOptions(staticSelect, districtOptions(p, city)),
        !.areaSelect = staticSelect]

\* updateAreasForDistrict (part_000:305-331)
updateAreasForDistrict(p, city, district) ==
    LET lang == Or(p.langSelect, en)
        districtMap == getOrEmpty(p.citiesMap, city)
        areaSet == getOrEmpty(districtMap, district)
        matching(d) == /\ city = <<>> \/ label(p, d, "city", lang) = city
                       /\ district = <<>> \/ label(p, d, "district", lang) = district
        areas ==
            addAll(<<>>, [i \in 1..Len(p.doctors) |->
                            IF matching(p.doctors[i])
                            THEN label(p, p.doctors[i], "area", lang) ELSE <<>>])
    IN  [p EXCEPT
            !.areaSelect =
                appendOptions(staticSelect,
                              IF inCitiesMap(p, city) THEN sort(areaSet) ELSE sort(areas))]

HongKong == <<"H", "o", "n", "g", " ", "K", "o", "n", "g">>
XiangGang == <<"u9999", "u6e2f">>

\* mutant: the English label is preferred in every language
setDefaultCitySelection_enFirst(p) ==
    LET options == p.citySelect.opts
        matches(v, pl) == v = pl \/ toLowerCase(v) = toLowerCase(pl)
        found(pl) == \E i \in 1..Len(options) : matches(options[i], pl)
        matchOpt(pl) == options[CHOOSE i \in 1..Len(options) :
                                   /\ matches(options[i], pl)
                                   /\ \A j \in 1..(i - 1) : ~matches(options[j], pl)]
        choose(pl) ==
            updateAreasForDistrict(
                updateDistrictsForCity([p EXCEPT !.citySelect = setValue(@, matchOpt(pl))],
                                       matchOpt(pl)),
                matchOpt(pl), <<>>)
    IN  IF found(HongKong) THEN choose(HongKong)
        ELSE IF found(XiangGang) THEN choose(XiangGang)
        ELSE [p EXCEPT !.citySelect = setValue(@, <<>>)]

\* setDefaultCitySelection (part_000:253-275). The text of an option is its
\* value, except for the options of value "", whose text ("All Cities",
\* "—") is no preferred label: an option matches on its value.
setDefaultCitySelection(p) ==
    LET lang == Or(p.langSelect, en)
        preferred == IF lang = en THEN <<HongKong, XiangGang>> ELSE <<XiangGang, HongKong>>
        options == p.citySelect.opts
        matches(v, pl) == v = pl \/ toLowerCase(v) = toLowerCase(pl)
        found(pl) == \E i \in 1..Len(options) : matches(options[i], pl)
        matchOpt(pl) == options[CHOOSE i \in 1..Len(options) :
                                   /\ matches(options[i], pl)
                                   /\ \A j \in 1..(i - 1) : ~matches(options[j], pl)]
        choose(pl) ==
            LET s1 == {[p EXCEPT !.citySelect = setValue(@, matchOpt(pl))]}
                s2 == {updateDistrictsForCity(q, matchOpt(pl)) : q \in s1}
                s3 == {updateAreasForDistrict(q, matchOpt(pl), <<>>) : q \in s2}
            IN  the(s3)
    IN  IF found(preferred[1]) THEN choose(preferred[1])
        ELSE IF found(preferred[2]) THEN choose(preferred[2])
        ELSE [p EXCEPT !.citySelect = setValue(@, <<>>)]

\* renderDoctors (part_000:338-449), as far as the list and the count go
renderDoctors(p, list) ==
    [p EXCEPT
        !.results = [kind |-> IF list = <<>> THEN "noDoctors" ELSE "cards", list |-> list],
        !.resultCount = [kind |-> "doctorsCount", n |-> Len(list)]]

\* Object.values(map).map(x => (x||'').toString().toLowerCase())
\*     .some(c => c === sel.toLowerCase())
someEquals(map, sel) ==
    \E i \in 1..Len(map) : toLowerCase(Or(map[i].v, <<>>)) = toLowerCase(sel)

\* mutant: the selection is compared with the label of the display language
categoryPasses_displayLang(p, d, key, sel) ==
    Truthy(sel) => toLowerCase(Or(get(d[key], p.langSelect), <<>>)) = toLowerCase(sel)

\* if (sel) { ... if (!values.some(...)) return false } (part_000:465-482)
categoryPasses(p, d, key, sel) == Truthy(sel) => someEquals(d[key], sel)

\* mutant: the query is not trimmed
query_noTrim(p) == toLowerCase(p.searchInput)

\* const q = (searchInput.value || '').trim().toLowerCase() (part_000:452)
query(p) == toLowerCase(trim(p.searchInput))

\* if (q && !allNames.includes(q)) return false (part_000:461-462)
textPasses(p, d, q) ==
    Truthy(q) => includes(toLowerCase(join(values(d.names), <<" ">>)), q)

\* mutant: a district selection is ignored
keep_noDistrict(p, d) ==
    /\ textPasses(p, d, query(p))
    /\ categoryPasses(p, d, "specialties", value(p.specialtySelect))
    /\ categoryPasses(p, d, "cities", value(p.citySelect))
    /\ categoryPasses(p, d, "areas", value(p.areaSelect))

\* the callback of doctors.filter (part_000:459-485)
keep(p, d) ==
    /\ textPasses(p, d, query(p))
    /\ categoryPasses(p, d, "specialties", value(p.specialtySelect))
    /\ categoryPasses(p, d, "cities", value(p.citySelect))
    /\ categoryPasses(p, d, "districts", value(p.districtSelect))
    /\ categoryPasses(p, d, "areas", value(p.areaSelect))

\* applyFilters (part_000:451-488)
applyFilters(p) == renderDoctors(p, SelectSeq(p.doctors, LAMBDA d : keep(p, d)))

\* /[^+0-9]/ does not match c
telChar(c) == c = "+" \/ \E n \in 1..Len(Digits) : Digits[n] = c

\* formatPhoneForTel (part_000:333-336)
formatPhoneForTel(phone) ==
    IF ~Truthy(phone) THEN <<>>
    ELSE SelectSeq(phone, telChar)

\* updateUrlLang (part_000:209-216): the `lang` parameter it writes
RECURSIVE replaceFirst(_, _, _)
replaceFirst(str, c, by) ==
    IF str = <<>> THEN <<>>
    ELSE IF Head(str) = c THEN <<by>> \o Tail(str)
    ELSE <<Head(str)>> \o replaceFirst(Tail(str), c, by)

updateUrlLang(p, lang) ==
    IF ~Truthy(lang) THEN p
    ELSE [p EXCEPT !.urlLang = replaceFirst(toLowerCase(lang), "_", "-")]

\* the language the load picks from the URL (part_000:87-97)
ZhSynonyms == {<<"z", "h", "-", "h", "k">>, <<"z", "h", "_", "h", "k">>,
               <<"z", "h", "h", "k">>, <<"z", "h", "-", "h", "a", "n", "t">>,
               <<"z", "h">>}
EnSynonyms == {en, <<"e", "n", "-", "u", "s">>, <<"e", "n", "-", "g", "b">>}

\* mutant: the path segment comes before the `lang` parameter
initialLang_pathFirst(q, seg) ==
    LET cand == toLowerCase(Or(toLowerCase(seg), Or(q, <<>>)))
    IN  IF cand \in ZhSynonyms THEN zhHK ELSE en

initialLang(q, seg) ==
    LET cand == toLowerCase(Or(q, Or(toLowerCase(seg), <<>>)))
    IN  IF cand \in ZhSynonyms THEN zhHK ELSE en

\* the try block of loadDoctors after the fetch (part_000:82-106)
loaded(p, data, perRow) ==
    LET p0 == [p EXCEPT
                  !.doctors = IF perRow THEN normalizePerRow(data) ELSE mergeByDocId(data),
                  !.langSelect = initialLang(p.urlLang, pathSeg)]
        s1 == {populateFilters(q) : q \in {p0}}
        s2 == {setDefaultCitySelection(q) : q \in s1}
        s3 == {updateDistrictsForCity(q, Or(value(q.citySelect), <<>>)) : q \in s2}
        s4 == {updateAreasForDistrict(q, Or(value(q.citySelect), <<>>),
                                      Or(value(q.areaSelect), <<>>)) : q \in s3}
        s5 == {applyFilters(q) : q \in s4}
    IN  the(s5)

\* the catch block of loadDoctors (part_000:107-111)
loadFailed(p) ==
    [p EXCEPT !.results = [kind |-> "errorLoadingData", list |-> <<>>],
              !.resultCount = [kind |-> "zeroDoctors", n |-> 0]]

\* the change listener of citySelect (part_000:493)
cityChanged(p) ==
    LET v == value(p.citySelect)
        s1 == {updateDistrictsForCity(q, v) : q \in {p}}
        s2 == {updateAreasForDistrict(q, v, <<>>) : q \in s1}
        s3 == {applyFilters(q) : q \in s2}
    IN  the(s3)

\* mutant: the district listener rebuilds the areas and leaves the list alone
districtChanged_noFilter(p) ==
    updateAreasForDistrict(p, value(p.citySelect), value(p.districtSelect))

\* the change listener of districtSelect (part_000:494)
districtChanged(p) ==
    LET s1 == {updateAreasForDistrict(q, value(q.citySelect), value(q.districtSelect))
                 : q \in {p}}
        s2 == {applyFilters(q) : q \in s1}
    IN  the(s2)

\* the click listener of clearBtn (part_000:496-499)
cleared(p) ==
    LET p0 == [p EXCEPT !.searchInput = <<>>,
                        !.specialtySelect = setValue(@, <<>>),
                        !.citySelect = setValue(@, <<>>),
                        !.districtSelect = setValue(@, <<>>),
                        !.areaSelect = setValue(@, <<>>)]
        s1 == {updateDistrictsForCity(q, <<>>) : q \in {p0}}
        s2 == {updateAreasForDistrict(q, <<>>, <<>>) : q \in s1}
        s3 == {applyFilters(q) : q \in s2}
    IN  the(s3)

\* mutant: the listener keeps the options the selects have and appends the
\* vocabulary of the new language to them
langChanged_noReset(p) ==
    LET p0 == [p EXCEPT !.specialtySelect.idx = 1,
                        !.citySelect.idx = 1,
                        !.districtSelect = staticSelect,
                        !.areaSelect = staticSelect]
        s1 == {populateFilters(q) : q \in {p0}}
        s2 == {updateDistrictsForCity(q, <<>>) : q \in s1}
        s3 == {updateAreasForDistrict(q, <<>>, <<>>) : q \in s2}
        s4 == {applyFilters(q) : q \in s3}
        s5 == {updateUrlLang(q, q.langSelect) : q \in s4}
    IN  the(s5)

\* the change listener of langSelect (part_000:500-514); applyTranslationsToUI
\* and t() change the texts of the static options and of the button only
langChanged(p) ==
    LET p0 == [p EXCEPT !.specialtySelect = staticSelect,
                        !.citySelect = staticSelect,
                        !.districtSelect = staticSelect,
                        !.areaSelect = staticSelect]
        s1 == {populateFilters(q) : q \in {p0}}
        s2 == {updateDistrictsForCity(q, <<>>) : q \in s1}
        s3 == {updateAreasForDistrict(q, <<>>, <<>>) : q \in s2}
        s4 == {applyFilters(q) : q \in s3}
        s5 == {updateUrlLang(q, q.langSelect) : q \in s4}
    IN  the(s5)

----------------------------------------------------------------------------
(* SpecNorm: the Normalizer on every array of at most MaxRows raw rows *)

MaxRows == 2

\* a raw row; v fills the per-language fields, s the language-independent ones.
\* Each value carries the initial of its field, so that no two fields of a
\* row hold the same non-empty string.
tag(v, c) == IF Truthy(v) THEN v \o <<c>> ELSE v

rawRow(id, lang, v, s) ==
    [doc_id |-> id, lang |-> lang,
     doc_name |-> tag(v, "n"), doc_address |-> tag(v, "a"), doc_tel_A |-> tag(v, "t"),
     doc_cat_name |-> tag(v, "s"), doc_wh |-> tag(v, "w"), doc_remark |-> tag(v, "r"),
     area_name |-> tag(v, "e"), district_name |-> tag(v, "d"), city_name |-> tag(v, "c"),
     doc_lat |-> tag(s, "y"), doc_long |-> tag(s, "x"), cta_link |-> tag(s, "l")]

NormIds == {undefined, <<>>, <<"1">>, <<"1", "_", "e", "n">>}
NormLangs == {undefined, en, zhHK}
\* <<v, s>>: nothing given, everything empty, and two rows of full values
NormPayloads == {<<undefined, undefined>>, <<<<>>, <<>>>>,
                 <<<<"A">>, <<"1">>>>, <<<<"B">>, <<"2">>>>}

NormRows ==
    {rawRow(id, lang, p[1], p[2]) : id \in NormIds, lang \in NormLangs, p \in NormPayloads}

NormInputs == UNION {[1..n -> NormRows] : n \in 0..MaxRows}

NormInit ==
    /\ pc = "fetched"
    /\ rawData \in NormInputs
    /\ showAllRecords \in BOOLEAN
    /\ doctors = <<>>
    /\ PageInit

\* doctors = showAllRecords ? normalizePerRow(rawData) : mergeByDocId(rawData)
Normalize ==
    /\ pc = "fetched"
    /\ doctors' = IF showAllRecords THEN normalizePerRow(rawData) ELSE mergeByDocId(rawData)
    /\ pc' = "normalized"
    /\ UNCHANGED <<rawData, showAllRecords, pageVars>>

\* script.js: doctors = mergeByDocId(rawData)
script_Normalize ==
    /\ pc = "fetched"
    /\ showAllRecords = FALSE
    /\ doctors' = script_mergeByDocId(rawData)
    /\ pc' = "script_normalized"
    /\ UNCHANGED <<rawData, showAllRecords, pageVars>>

NormNext == Normalize \/ script_Normalize

SpecNorm == NormInit /\ [][NormNext]_vars

----------------------------------------------------------------------------
(* Claims about the Normalizer, under SpecNorm *)

Grouped == pc = "normalized" /\ ~showAllRecords
PerRow == pc = "normalized" /\ showAllRecords
ScriptGrouped == pc = "script_normalized"

Rows == 1..Len(rawData)
Docs == 1..Len(doctors)
rowId(i) == Or(rawData[i].doc_id, <<>>)
rowLang(i) == Or(rawData[i].lang, en)
LocalizableSet == {LocalizableFields[i] : i \in 1..Len(LocalizableFields)}

\* the first row of rawData with identifier id, the identifier being idOf(row)
firstRow(idOf(_), id) ==
    CHOOSE i \in Rows : idOf(i) = id /\ \A j \in 1..(i - 1) : idOf(j) # id

\* every value stored in a per-language map of a produced Entity is non-empty
\* and is the value of that field in a source row of that language
MapsHoldOnlySourceValues ==
    \A d \in Docs : \A f \in LocalizableSet :
        \A e \in 1..Len(doctors[d][f.key]) :
            LET kv == doctors[d][f.key][e]
            IN  /\ Truthy(kv.v)
                /\ \E i \in Rows : rowLang(i) = kv.k /\ rawData[i][f.field] = kv.v

\* C6: Entity invariant. Under both strategies every per-language map of
\* every produced Entity holds only non-empty values present in the source
\* rows; an absent or empty field is a missing key, never a stored "".
C6_EntityInvariant == (Grouped \/ PerRow) => MapsHoldOnlySourceValues

\* the language-independent fields of a grouped Entity are those of row i
SeedFrom(doc, i) ==
    /\ doc.address = Or(rawData[i].doc_address, <<>>)
    /\ doc.lat = Or(rawData[i].doc_lat, <<>>)
    /\ doc.lng = Or(rawData[i].doc_long, <<>>)
    /\ doc.cta_link = Or(rawData[i].cta_link, <<>>)

firstTruthy(id, f) ==
    IF \E i \in Rows : rowId(i) = id /\ Truthy(rawData[i][f])
    THEN rawData[CHOOSE i \in Rows :
                    /\ rowId(i) = id /\ Truthy(rawData[i][f])
                    /\ \A j \in 1..(i - 1) : ~(rowId(j) = id /\ Truthy(rawData[j][f]))][f]
    ELSE <<>>

docOfRow(i) ==
    IF showAllRecords THEN doctors[i]
    ELSE doctors[CHOOSE d \in Docs : doctors[d].id = rowId(i)]

\* C8 as claimed: under both strategies every non-empty localizable field
\* value of every row is found in the corresponding map of the row's Entity
\* under the row's language ("en" when the row has none).
C8_EveryRowValueStored ==
    (Grouped \/ PerRow) =>
        \A i \in Rows : \A f \in LocalizableSet :
            Truthy(rawData[i][f.field]) =>
                get(docOfRow(i)[f.key], rowLang(i)) = rawData[i][f.field]

\* no later row of the same identifier and language has a non-empty field f
LastWrite(i, f) ==
    \A j \in (i + 1)..Len(rawData) :
        ~(rowId(j) = rowId(i) /\ rowLang(j) = rowLang(i) /\ Truthy(rawData[j][f]))

\* C8 as amended: every non-empty localizable field value of a row is found
\* in the corresponding map of the row's Entity under the row's language
\* ("en" when the row has none), in per-row mode for every row, in grouped
\* mode unless a later row of the same identifier and language has a
\* non-empty value for the same field (that later value is stored instead).
C8_Completeness ==
    (Grouped \/ PerRow) =>
        \A i \in Rows : \A f \in LocalizableSet :
            (Truthy(rawData[i][f.field]) /\ (showAllRecords \/ LastWrite(i, f.field))) =>
                get(docOfRow(i)[f.key], rowLang(i)) = rawData[i][f.field]

\* C8 witness: grouped mode, a row without a language tag and a row tagged
\* zh-HK of the same identifier, both with values, merged into one Entity
C8_Witness ==
    /\ Grouped /\ Len(rawData) = 2 /\ Len(doctors) = 1
    /\ rawData[1].lang = undefined /\ rawData[2].lang = zhHK
    /\ Truthy(rawData[1].city_name) /\ Truthy(rawData[2].city_name)
    /\ get(doctors[1].cities, en) = rawData[1].city_name

\* C9: grouped mode produces exactly one Entity per distinct identifier, in
\* order of first occurrence, a row without identifier having identifier "".
C9_OneEntityPerIdentifier ==
    Grouped =>
        /\ {doctors[d].id : d \in Docs} = {rowId(i) : i \in Rows}
        /\ Len(doctors) = Cardinality({rowId(i) : i \in Rows})
        /\ \A d1, d2 \in Docs :
              d1 < d2 => firstRow(rowId, doctors[d1].id) < firstRow(rowId, doctors[d2].id)

\* C9 witness: a row without identifier and a row with identifier "" have
\* collapsed into the one Entity of identifier ""
C9_Witness ==
    /\ Grouped /\ Len(rawData) = 2 /\ Len(doctors) = 1
    /\ rawData[1].doc_id = undefined /\ rawData[2].doc_id = <<>>
    /\ doctors[1].id = <<>>

\* C10: per-row mode produces one Entity per row, Entity i from row i, and
\* no two Entities have the same identity.
C10_PerRowDistinct ==
    PerRow =>
        /\ Len(doctors) = Len(rawData)
        /\ \A i \in Rows :
              /\ doctors[i].baseId = rowId(i)
              /\ doctors[i].names = <<[k |-> rowLang(i), v |-> Or(rawData[i].doc_name, <<>>)]>>
        /\ \A i, j \in Docs : i # j => doctors[i].id # doctors[j].id

\* C10 witness: two rows with the same identifier, which contains "_", and
\* the same language
C10_Witness ==
    /\ PerRow /\ Len(rawData) = 2 /\ Len(doctors) = 2
    /\ rawData[1].doc_id = <<"1", "_", "e", "n">> /\ rawData[2].doc_id = rawData[1].doc_id
    /\ rowLang(1) = rowLang(2)

\* the rows of identifier id and language lang
rowsOf(id, lang) == {i \in Rows : rowId(i) = id /\ rowLang(i) = lang}

\* the last of a non-empty set of rows
lastRow(S) == CHOOSE i \in S : \A j \in S : j <= i

\* the number of entries of map m under key k
entries(m, k) == Cardinality({e \in 1..Len(m) : m[e].k = k})

\* the languages of the rows
RowLangs == {rowLang(i) : i \in Rows}

\* C11 as claimed: in grouped mode, when several rows share identifier and
\* language, every per-language map of the Entity holds at most one value
\* under that language, and it is the value the last of those rows has for
\* the field (nothing non-empty when that row has none).
C11_LastRowWins ==
    Grouped =>
        \A d \in Docs : \A lang \in RowLangs : \A f \in LocalizableSet :
            LET S == rowsOf(doctors[d].id, lang)
                m == doctors[d][f.key]
            IN  Cardinality(S) > 1 =>
                    /\ entries(m, lang) <= 1
                    /\ Or(get(m, lang), <<>>) = Or(rawData[lastRow(S)][f.field], <<>>)

\* C11 as amended: in grouped mode, when several rows share identifier and
\* language, every per-language map of the Entity holds at most one value
\* under that language: the value of the last of those rows that has a
\* non-empty value for the field, a row without the field writing nothing;
\* nothing non-empty when none of them has one.
C11_LastWriteWins ==
    Grouped =>
        \A d \in Docs : \A lang \in RowLangs : \A f \in LocalizableSet :
            LET S == rowsOf(doctors[d].id, lang)
                W == {i \in S : Truthy(rawData[i][f.field])}
                m == doctors[d][f.key]
            IN  Cardinality(S) > 1 =>
                    /\ entries(m, lang) <= 1
                    /\ Or(get(m, lang), <<>>) =
                          IF W = {} THEN <<>> ELSE rawData[lastRow(W)][f.field]

\* C11 witness: two rows of the same identifier and language with different
\* non-empty values, merged into one Entity that holds the second row's
\* name and city
C11_Witness ==
    /\ Grouped /\ Len(rawData) = 2 /\ Len(doctors) = 1
    /\ rowId(1) = rowId(2) /\ rowLang(1) = rowLang(2)
    /\ Truthy(rawData[1].city_name) /\ Truthy(rawData[2].city_name)
    /\ rawData[1].city_name # rawData[2].city_name
    /\ doctors[1].cities = <<[k |-> rowLang(2), v |-> rawData[2].city_name]>>
    /\ doctors[1].names = <<[k |-> rowLang(2), v |-> rawData[2].doc_name]>>

----------------------------------------------------------------------------
(* SpecFilter: the Filter Engine on every Entity collection made of at     *)
(* most MaxFilterRows rows, by either strategy, and every Filter Selection *)
(* over the labels below, given directly.                                  *)

MaxFilterRows == 2

Tan == <<"T", "a", "n">>
Chan == <<"u9673">>
GP == <<"G", "P">>
QuanKe == <<"u5168", "u79d1">>
Central == <<"C", "e", "n", "t", "r", "a", "l">>
ZhongHuan == <<"u4e2d", "u74b0">>
Soho == <<"S", "o", "h", "o">>
SuHao == <<"u8607", "u8c6a">>

ja == <<"j", "a">>

\* the label of a field in the rows of a language: English, traditional
\* Chinese, simplified Chinese (the city reads the same in both), Japanese
labelOf(field, lang) ==
    CASE field = "doc_name" ->
            CASE lang = en -> Tan [] lang = zhHK -> Chan
              [] lang = zhCN -> <<"u9648">> [] OTHER -> <<"u30bf">>
      [] field = "doc_cat_name" ->
            CASE lang = en -> GP [] lang = zhHK -> QuanKe
              [] lang = zhCN -> <<"u666e">> [] OTHER -> <<"u5185">>
      [] field = "city_name" ->
            CASE lang = en -> HongKong [] lang = zhHK -> XiangGang
              [] lang = zhCN -> XiangGang [] OTHER -> <<"u30db">>
      [] field = "district_name" ->
            CASE lang = en -> Central [] lang = zhHK -> ZhongHuan
              [] lang = zhCN -> <<"u4e2d", "u73af">> [] OTHER -> <<"u30bb">>
      [] field = "area_name" ->
            CASE lang = en -> Soho [] lang = zhHK -> SuHao
              [] lang = zhCN -> <<"u82cf", "u8c6a">> [] OTHER -> <<"u30bd">>

\* a raw row of language lang that has the fields of `present`
filterRow(id, lang, present) ==
    LET f(field) == IF field \in present THEN labelOf(field, lang) ELSE undefined
    IN  [doc_id |-> id, lang |-> lang,
         doc_name |-> f("doc_name"), doc_address |-> undefined, doc_tel_A |-> undefined,
         doc_cat_name |-> f("doc_cat_name"), doc_wh |-> undefined,
         doc_remark |-> undefined, area_name |-> f("area_name"),
         district_name |-> f("district_name"), city_name |-> f("city_name"),
         doc_lat |-> undefined, doc_long |-> undefined, cta_link |-> undefined]

FilterIds == {<<"1">>, <<"2">>}
FilterLangs == {en, zhHK}
FilterPresent ==
    {{"doc_name", "doc_cat_name", "city_name", "district_name", "area_name"},
     {"doc_name", "city_name", "district_name"},
     {"doc_cat_name", "city_name"},
     {}}

FilterRows ==
    {filterRow(id, lang, present) :
        id \in FilterIds, lang \in FilterLangs, present \in FilterPresent}

FilterInputs == UNION {[1..n -> FilterRows] : n \in 0..MaxFilterRows}

\* a <select> whose selected option has value v
selected(v) == IF v = <<>> THEN staticSelect ELSE [opts |-> <<<<>>, v>>, idx |-> 2]

FilterQueries == {<<>>, <<"a", "n">>}
FilterSpecialties == {<<>>, <<"g", "p">>}
FilterCities == {<<>>, <<"h", "o", "n", "g", " ", "k", "o", "n", "g">>, XiangGang}
FilterDistricts == {<<>>, <<"c", "e", "n", "t", "r", "a", "l">>}
FilterAreas == {<<>>, <<"S", "O", "H", "O">>}

FilterInit ==
    /\ pc = "selected"
    /\ rawData \in FilterInputs
    /\ showAllRecords \in BOOLEAN
    /\ doctors = IF showAllRecords THEN normalizePerRow(rawData) ELSE mergeByDocId(rawData)
    /\ langSelect \in {en, zhHK}
    /\ searchInput \in FilterQueries
    /\ specialtySelect \in {selected(v) : v \in FilterSpecialties}
    /\ citySelect \in {selected(v) : v \in FilterCities}
    /\ districtSelect \in {selected(v) : v \in FilterDistricts}
    /\ areaSelect \in {selected(v) : v \in FilterAreas}
    /\ OutputInit /\ urlLang = undefined /\ pathSeg = <<>>

\* applyFilters()
ApplyFilters ==
    /\ pc = "selected"
    /\ Install(applyFilters(Page))
    /\ pc' = "filtered"
    /\ UNCHANGED <<rawData, showAllRecords, pathSeg, last, returned>>

FilterNext == ApplyFilters

SpecFilter == FilterInit /\ [][FilterNext]_vars

----------------------------------------------------------------------------
(* Claims about the Filter Engine, under SpecFilter *)

Filtered == pc = "filtered"

\* some language entry of the map equals the label, letter case aside
MatchesAnyLanguage(map, sel) ==
    \E l \in {map[i].k : i \in 1..Len(map)} :
        get(map, l) # undefined /\ toLowerCase(get(map, l)) = toLowerCase(sel)

Categories ==
    {[key |-> "specialties", sel |-> value(specialtySelect)],
     [key |-> "cities", sel |-> value(citySelect)],
     [key |-> "districts", sel |-> value(districtSelect)],
     [key |-> "areas", sel |-> value(areaSelect)]}

Shown(d) == \E k \in 1..Len(results.list) : results.list[k] = d

\* C1: match-any-language categorical filter. An entity that is kept has,
\* for each category with a non-empty selection, a language entry equal to
\* the selected label (letter case aside); and when one category is the
\* only constraint, the entities kept are exactly those with such an
\* entry. The display language plays no part.
C1_MatchAnyLanguage ==
    Filtered =>
        \A c \in Categories :
            c.sel # <<>> =>
                /\ \A d \in Docs : Shown(doctors[d]) => MatchesAnyLanguage(doctors[d][c.key], c.sel)
                /\ (searchInput = <<>> /\ \A o \in Categories \ {c} : o.sel = <<>>) =>
                      \A d \in Docs :
                          Shown(doctors[d]) <=> MatchesAnyLanguage(doctors[d][c.key], c.sel)

\* C1 witness: the display language is zh-HK, the selections are the
\* English labels of city and district in lower case, and the grouped
\* entity with cities {en: "Hong Kong", zh-HK: "香港"} and districts
\* {en: "Central", zh-HK: "中環"} is kept
C1_Witness ==
    /\ Filtered /\ ~showAllRecords /\ langSelect = zhHK
    /\ value(citySelect) = toLowerCase(HongKong)
    /\ value(districtSelect) = toLowerCase(Central)
    /\ \E d \in Docs :
          /\ doctors[d].cities = <<[k |-> en, v |-> HongKong], [k |-> zhHK, v |-> XiangGang]>>
          /\ doctors[d].districts = <<[k |-> en, v |-> Central], [k |-> zhHK, v |-> ZhongHuan]>>
          /\ Shown(doctors[d])

\* the text constraint: the query, trimmed and in lower case, is empty or
\* occurs in the lower-cased names of all languages joined by " "
TextConstraint(d, text) ==
    LET q == toLowerCase(trim(text))
    IN  q = <<>> \/ includes(toLowerCase(join(values(d.names), <<" ">>)), q)

Satisfies(d) ==
    /\ TextConstraint(d, searchInput)
    /\ \A c \in Categories : c.sel = <<>> \/ MatchesAnyLanguage(d[c.key], c.sel)

Passing == {i \in Docs : Satisfies(doctors[i])}

\* the k-th passing index, in input order
kth(k) == CHOOSE i \in Passing : Cardinality({j \in Passing : j <= i}) = k

\* C2: the result is exactly the entities that satisfy the text constraint
\* and all four categorical constraints, in input order, each once; with
\* an empty query and four empty selectors it is the whole collection.
C2_ExactSubsequence ==
    Filtered =>
        /\ Len(results.list) = Cardinality(Passing)
        /\ \A k \in 1..Len(results.list) : results.list[k] = doctors[kth(k)]
        /\ (searchInput = <<>> /\ \A c \in Categories : c.sel = <<>>) =>
              results.list = doctors

\* C2 witness: of two entities the first fails a constraint and the second,
\* which satisfies the query and three selections, is the result
C2_Witness ==
    /\ Filtered /\ Len(doctors) = 2
    /\ searchInput # <<>> /\ Cardinality({c \in Categories : c.sel # <<>>}) >= 3
    /\ results.list = <<doctors[2]>>

----------------------------------------------------------------------------
(* SpecQuery: the text constraint alone, on the same Entity collections    *)

QueryTexts ==
    {<<>>, <<" ">>, <<"T">>, <<"a", "n", " ">>, <<"n", " ", "u9673">>, <<"G">>}

QueryInit ==
    /\ pc = "selected"
    /\ rawData \in FilterInputs
    /\ showAllRecords \in BOOLEAN
    /\ doctors = IF showAllRecords THEN normalizePerRow(rawData) ELSE mergeByDocId(rawData)
    /\ langSelect \in {en, zhHK}
    /\ searchInput \in QueryTexts
    /\ specialtySelect = staticSelect /\ citySelect = staticSelect
    /\ districtSelect = staticSelect /\ areaSelect = staticSelect
    /\ OutputInit /\ urlLang = undefined /\ pathSeg = <<>>

SpecQuery == QueryInit /\ [][FilterNext]_vars

\* C3 as claimed: an entity passes the text constraint if and only if the
\* query is empty or the lower-cased query occurs in the lower-cased names
\* of all languages joined by the separator.
C3_QueryAsTyped ==
    Filtered =>
        \A d \in Docs :
            Shown(doctors[d]) <=>
                \/ searchInput = <<>>
                \/ includes(toLowerCase(join(values(doctors[d].names), <<" ">>)),
                            toLowerCase(searchInput))

\* C3 as amended: the query is first trimmed of surrounding white space; an
\* entity passes if and only if the trimmed query is empty or, lower-cased,
\* occurs in the lower-cased names of all languages joined by " ".
C3_QueryTrimmed ==
    Filtered => \A d \in Docs : Shown(doctors[d]) <=> TextConstraint(doctors[d], searchInput)

\* C3 witness: the query "an " keeps the entity whose only name is "Tan"
\* and drops the entity whose only name is "陳"
C3_Witness ==
    /\ Filtered /\ Len(doctors) = 2
    /\ searchInput = <<"a", "n", " ">>
    /\ values(doctors[1].names) = <<Tan>> /\ Shown(doctors[1])
    /\ values(doctors[2].names) = <<Chan>> /\ ~Shown(doctors[2])

----------------------------------------------------------------------------
(* SpecVocab: the Vocabulary Builder on every Entity collection made of at *)
(* most MaxVocabRows rows in four languages, for both display languages    *)

MaxVocabRows == 2

VocabLangs == {en, zhHK, zhCN, ja}

VocabRows ==
    {filterRow(id, lang, present) :
        id \in FilterIds, lang \in VocabLangs, present \in FilterPresent}

VocabInputs == UNION {[1..n -> VocabRows] : n \in 0..MaxVocabRows}

VocabInit ==
    /\ pc = "loaded"
    /\ rawData \in VocabInputs
    /\ showAllRecords \in BOOLEAN
    /\ doctors = IF showAllRecords THEN normalizePerRow(rawData) ELSE mergeByDocId(rawData)
    /\ langSelect \in {en, zhHK}
    /\ searchInput = <<>>
    /\ specialtySelect = staticSelect /\ citySelect = staticSelect
    /\ districtSelect = staticSelect /\ areaSelect = staticSelect
    /\ OutputInit /\ urlLang = undefined /\ pathSeg = <<>>

\* populateFilters()
PopulateFilters ==
    /\ pc = "loaded"
    /\ Install(populateFilters(Page))
    /\ pc' = "populated"
    /\ UNCHANGED <<rawData, showAllRecords, pathSeg, last, returned>>

VocabNext == PopulateFilters

SpecVocab == VocabInit /\ [][VocabNext]_vars

----------------------------------------------------------------------------
(* Claims about the Vocabulary Builder, under SpecVocab *)

Populated == pc = "populated"

\* the labels offered by a select, its static first option aside
offered(sel) == {sel.opts[i] : i \in 2..Len(sel.opts)}
members(seq) == {seq[i] : i \in 1..Len(seq)}

\* the labels of the vocabulary: specialties, cities, districts and areas
VocabularyLabels(key) ==
    CASE key = "specialties" -> offered(specialtySelect)
      [] key = "cities" -> members(keys(citiesMap)) \ {<<>>}
      [] key = "districts" ->
            UNION {members(keys(get(citiesMap, c))) : c \in members(keys(citiesMap))} \ {<<>>}
      [] key = "areas" ->
            UNION {UNION {members(get(get(citiesMap, c), k)) :
                             k \in members(keys(get(citiesMap, c)))} :
                      c \in members(keys(citiesMap))}

VocabularyKeys == {"specialties", "cities", "districts", "areas"}

\* C5 as claimed: every label of the Vocabulary built for the active
\* language L is stored under L by some entity, so that an entity without a
\* value under L contributes nothing for that attribute.
C5_ActiveLanguageOnly ==
    Populated =>
        \A key \in VocabularyKeys : \A v \in VocabularyLabels(key) :
            \E d \in Docs : get(doctors[d][key], langSelect) = v

\* the value stored under language l when it is non-empty, otherwise the
\* first non-empty value under zh-HK, zh-CN, en, otherwise ""
Resolved(map, l) ==
    LET chain == <<l, zhHK, zhCN, en>>
        hits == {i \in 1..4 : get(map, chain[i]) \notin {undefined, <<>>}}
    IN  IF hits = {} THEN <<>>
        ELSE get(map, chain[CHOOSE i \in hits : \A j \in hits : i <= j])

ResolvedOf(d, key) == Resolved(doctors[d][key], langSelect)

\* C5 as amended: the Vocabulary built for the active language L holds, for
\* every entity and attribute, the label resolved for L: the non-empty
\* value stored under L, otherwise the first non-empty value stored under
\* zh-HK, zh-CN, en. An entity contributes nothing for an attribute only
\* when it has no non-empty value under L, zh-HK, zh-CN or en. The
\* specialty and city options are these labels, each once.
C5_ResolvedLabels ==
    Populated =>
        /\ offered(specialtySelect) = {ResolvedOf(d, "specialties") : d \in Docs} \ {<<>>}
        /\ Len(specialtySelect.opts) = 1 + Cardinality(offered(specialtySelect))
        /\ members(keys(citiesMap)) = {ResolvedOf(d, "cities") : d \in Docs}
        /\ Len(citiesMap) = Cardinality(members(keys(citiesMap)))
        /\ SubSeq(citySelect.opts, 2, Len(citySelect.opts)) = sort(keys(citiesMap))
        /\ \A c \in members(keys(citiesMap)) :
              /\ members(keys(get(citiesMap, c))) =
                    {ResolvedOf(d, "districts") : d \in {e \in Docs : ResolvedOf(e, "cities") = c}}
              /\ \A k \in members(keys(get(citiesMap, c))) :
                    members(get(get(citiesMap, c), k)) =
                        {ResolvedOf(d, "areas") :
                            d \in {e \in Docs : /\ ResolvedOf(e, "cities") = c
                                                /\ ResolvedOf(e, "districts") = k}} \ {<<>>}

\* C5 witness: the display language is zh-HK; one entity has its specialty
\* in English only and one in Japanese only; "GP" is offered and is the
\* only specialty offered
C5_Witness ==
    /\ Populated /\ langSelect = zhHK /\ Len(doctors) = 2
    /\ keys(doctors[1].specialties) = <<en>> /\ doctors[1].specialties[1].v = GP
    /\ keys(doctors[2].specialties) = <<ja>> /\ Truthy(doctors[2].specialties[1].v)
    /\ offered(specialtySelect) = {GP}

----------------------------------------------------------------------------
(* SpecLabel: label resolution. tData is called for an Entity of a         *)
(* collection made of at most MaxLabelRows rows by either strategy, for a  *)
(* field and a requested language, or none.                                *)

MaxLabelRows == 2

\* rows of one identifier, in four languages: with every label, with a
\* specialty and a city but no name, with nothing
LabelRows ==
    {filterRow(<<"1">>, lang, present) :
        lang \in VocabLangs,
        present \in {{"doc_name", "doc_cat_name", "city_name", "district_name", "area_name"},
                     {"doc_cat_name", "city_name"},
                     {}}}

LabelInputs == UNION {[1..n -> LabelRows] : n \in 0..MaxLabelRows}

LabelFields == {"name", "specialty", "city", "phone"}
LabelLangs == {undefined, en, zhHK, ja}

LabelInit ==
    /\ pc = "loaded"
    /\ rawData \in LabelInputs
    /\ showAllRecords \in BOOLEAN
    /\ doctors = IF showAllRecords THEN normalizePerRow(rawData) ELSE mergeByDocId(rawData)
    /\ langSelect \in {en, zhHK}
    /\ searchInput = <<>>
    /\ specialtySelect = staticSelect /\ citySelect = staticSelect
    /\ districtSelect = staticSelect /\ areaSelect = staticSelect
    /\ OutputInit /\ urlLang = undefined /\ pathSeg = <<>>

\* tData(doctors[d], field, lang)
ResolveLabel ==
    /\ pc = "loaded"
    /\ \E d \in 1..Len(doctors), field \in LabelFields, lang \in LabelLangs :
          returned' = [fn |-> "tData",
                       args |-> [doc |-> d, field |-> field, lang |-> lang],
                       value |-> tData(Page, doctors[d], field, lang)]
    /\ pc' = "resolved"
    /\ UNCHANGED <<rawData, showAllRecords, doctors, langSelect, searchInput,
                   specialtySelect, citySelect, districtSelect, areaSelect, citiesMap,
                   results, resultCount, urlLang, pathSeg, last>>

LabelNext == ResolveLabel

SpecLabel == LabelInit /\ [][LabelNext]_vars

----------------------------------------------------------------------------
(* Claims about label resolution, under SpecLabel *)

CalledTData == pc = "resolved" /\ returned.fn = "tData"

\* the map tData was called on, and the language it was asked for: the
\* requested one, the display language when none was requested
CalledMap == doctors[returned.args.doc][plural(returned.args.field)]
CalledLang == Or(returned.args.lang, langSelect)

\* the non-empty value map m holds under key k, "" when it holds none (an
\* entry holding "" is no value)
stored(m, k) == IF \E e \in 1..Len(m) : m[e].k = k /\ Truthy(m[e].v)
                THEN (CHOOSE kv \in {m[e] : e \in 1..Len(m)} : kv.k = k /\ Truthy(kv.v)).v
                ELSE <<>>

\* C12: label resolution. tData returns the value stored under the
\* requested language if there is one; otherwise the first value found
\* under zh-HK, zh-CN, en, in that order; otherwise "". The result is ""
\* or a value of the Entity's map for the field.
C12_LabelResolution ==
    CalledTData =>
        LET m == CalledMap
            found == {k \in {CalledLang, zhHK, zhCN, en} : stored(m, k) # <<>>}
        IN  /\ returned.value =
                  IF CalledLang \in found THEN stored(m, CalledLang)
                  ELSE IF zhHK \in found THEN stored(m, zhHK)
                  ELSE IF zhCN \in found THEN stored(m, zhCN)
                  ELSE IF en \in found THEN stored(m, en)
                  ELSE <<>>
            /\ returned.value = <<>> \/ \E e \in 1..Len(m) : m[e].v = returned.value

\* C12 witness: a grouped Entity with a zh-CN and an en city and no zh-HK
\* one is asked for its city in ja: the zh-CN label is returned
C12_Witness ==
    /\ CalledTData /\ ~showAllRecords
    /\ returned.args.field = "city" /\ returned.args.lang = ja
    /\ {CalledMap[e].k : e \in 1..Len(CalledMap)} = {zhCN, en}
    /\ returned.value = stored(CalledMap, zhCN)
    /\ returned.value # stored(CalledMap, en)

----------------------------------------------------------------------------
(* SpecUrl: the language in the URL. With some `lang` parameter and first  *)
(* path segment in the URL and a display language selected,                *)
(* updateUrlLang writes the URL; then the page is loaded again from that   *)
(* URL (the fetch answers with an empty array).                            *)

UrlLangs == {undefined, <<"z", "h">>, en, <<"f", "r">>, <<"z", "h", "-", "h", "k">>}
UrlPathSegs == {<<>>, <<"Z", "H", "-", "H", "K">>, <<"z", "h", "_", "h", "k">>, en,
                <<"E", "N", "-", "G", "B">>, <<"f", "r">>, <<"z", "h">>,
                <<"z", "h", "-", "h", "a", "n", "t">>, <<"l", "i", "s", "t">>}

UrlInit ==
    /\ pc = "shown"
    /\ rawData = <<>>
    /\ showAllRecords = TRUE
    /\ doctors = <<>>
    /\ langSelect \in {en, zhHK}
    /\ searchInput = <<>>
    /\ specialtySelect = staticSelect /\ citySelect = staticSelect
    /\ districtSelect = staticSelect /\ areaSelect = staticSelect
    /\ OutputInit
    /\ urlLang \in UrlLangs
    /\ pathSeg \in UrlPathSegs

\* updateUrlLang(langSelect.value)
UpdateUrlLang ==
    /\ pc = "shown"
    /\ Install(updateUrlLang(Page, langSelect))
    /\ returned' = [fn |-> "updateUrlLang", args |-> [lang |-> langSelect], value |-> <<>>]
    /\ pc' = "written"
    /\ UNCHANGED <<rawData, showAllRecords, pathSeg, last>>

\* the page is loaded again from the URL written: the controls are those of
\* the HTML again, and loadDoctors runs
Reload ==
    /\ pc = "written"
    /\ Install(loaded([Page EXCEPT !.langSelect = en], <<>>, showAllRecords))
    /\ pc' = "reloaded"
    /\ UNCHANGED <<rawData, showAllRecords, pathSeg, last, returned>>

UrlNext == UpdateUrlLang \/ Reload

SpecUrl == UrlInit /\ [][UrlNext]_vars

----------------------------------------------------------------------------
(* Claims about the language in the URL, under SpecUrl *)

\* C16: language choice survives reload. After updateUrlLang(L), L being en
\* or zh-HK, the startup language detection of a page loaded from the URL
\* written selects L again, whatever the first path segment and whatever
\* the `lang` parameter was before.
C16_LangSurvivesReload ==
    pc = "reloaded" => langSelect = returned.args.lang

\* C16 witness: zh-HK was written to a URL whose path starts with "en" and
\* whose `lang` parameter was "fr"; the page loaded again is in zh-HK
C16_Witness ==
    /\ pc = "reloaded" /\ returned.fn = "updateUrlLang" /\ returned.args.lang = zhHK
    /\ pathSeg = en /\ urlLang = <<"z", "h", "-", "h", "k">>
    /\ langSelect = zhHK

----------------------------------------------------------------------------
(* SpecPhone: formatPhoneForTel on its own, called with an absent phone or *)
(* with any string of at most MaxPhoneLen characters of PhoneChars.        *)

MaxPhoneLen == 3

PhoneChars == {"+", "8", "5", " ", "-"}

Phones ==
    {undefined} \cup UNION {[1..n -> PhoneChars] : n \in 0..MaxPhoneLen}

PhoneInit ==
    /\ pc = "loaded"
    /\ rawData = <<>>
    /\ showAllRecords = TRUE
    /\ doctors = <<>>
    /\ ControlsInit
    /\ OutputInit
    /\ urlLang = undefined
    /\ pathSeg = <<>>

FormatPhone ==
    /\ pc = "loaded"
    /\ \E phone \in Phones :
          returned' = [fn |-> "formatPhoneForTel", args |-> [phone |-> phone],
                       value |-> formatPhoneForTel(phone)]
    /\ pc' = "formatted"
    /\ UNCHANGED <<rawData, showAllRecords, doctors, langSelect, searchInput,
                   specialtySelect, citySelect, districtSelect, areaSelect,
                   citiesMap, results, resultCount, urlLang, pathSeg, last>>

PhoneNext == FormatPhone

SpecPhone == PhoneInit /\ [][PhoneNext]_vars

----------------------------------------------------------------------------
(* Claims about the telephone link, under SpecPhone *)

CalledFormatPhone == returned.fn = "formatPhoneForTel"

isDigit(c) == \E n \in 1..Len(Digits) : Digits[n] = c

\* the digits of s and its "+" signs, in order
kept(s) == SelectSeq(s, LAMBDA c : isDigit(c) \/ c = "+")

\* k without the "+" signs that are not its first character
leadingPlusOnly(k) ==
    LET at == {i \in 1..Len(k) : isDigit(k[i]) \/ i = 1}
        nth(j) == CHOOSE i \in at : Cardinality({h \in at : h < i}) = j - 1
    IN  [j \in 1..Cardinality(at) |-> k[nth(j)]]

\* C17: telephone link. formatPhoneForTel returns the phone with every
\* character removed except digits and a leading "+": a "+" that is not
\* the first kept character is removed; an empty or absent phone gives "".
C17_TelLeadingPlusAndDigits ==
    CalledFormatPhone =>
        returned.value =
            IF Truthy(returned.args.phone)
            THEN leadingPlusOnly(kept(returned.args.phone))
            ELSE <<>>

----------------------------------------------------------------------------
(* Spec: the page. The fetch answers with an array of at most MaxAppRows   *)
(* rows or fails; the user types, picks options, clears the filters and    *)
(* switches the language, before and after the answer. Each listener runs  *)
(* to completion.                                                          *)

MaxAppRows == 2

Dental == <<"D", "e", "n", "t", "a", "l">>
YaKe == <<"u7259", "u79d1">>
WanChai == <<"W", "a", "n", " ", "C", "h", "a", "i">>
WanZai == <<"u7063", "u4ed4">>
Macau == <<"M", "a", "c", "a", "u">>
AoMen == <<"u6fb3", "u9580">>
Taipa == <<"T", "a", "i", "p", "a">>
DangZai == <<"u6c39", "u4ed4">>

\* a raw row of the page's data: a doctor of Soho, Central, Hong Kong; one
\* of Wan Chai, Hong Kong; one of Taipa, Macau; or a row with nothing but
\* its identifier and language
appRow(lang, place) ==
    LET e == lang = en
        f(a, b) == IF e THEN a ELSE b
        row(name, cat, city, district, area) ==
            [doc_id |-> <<"1">>, lang |-> lang,
             doc_name |-> name, doc_address |-> undefined, doc_tel_A |-> undefined,
             doc_cat_name |-> cat, doc_wh |-> undefined, doc_remark |-> undefined,
             area_name |-> area, district_name |-> district, city_name |-> city,
             doc_lat |-> undefined, doc_long |-> undefined, cta_link |-> undefined]
    IN  CASE place = "soho" ->
                row(f(Tan, Chan), f(GP, QuanKe), f(HongKong, XiangGang),
                    f(Central, ZhongHuan), f(Soho, SuHao))
          [] place = "wanchai" ->
                row(f(Tan, Chan), f(Dental, YaKe), f(HongKong, XiangGang),
                    f(WanChai, WanZai), undefined)
          [] place = "taipa" ->
                row(f(Tan, Chan), f(GP, QuanKe), f(Macau, AoMen),
                    f(Taipa, DangZai), f(Soho, SuHao))
          [] place = "nowhere" ->
                row(undefined, undefined, undefined, undefined, undefined)

\* the rows of the data: each place in English, Soho in Chinese too
AppRows == {appRow(en, place) : place \in {"soho", "wanchai", "taipa", "nowhere"}}
               \cup {appRow(zhHK, "soho")}

AppInputs == UNION {[1..n -> AppRows] : n \in 0..MaxAppRows}

AppQueries == {<<>>, <<"a", "n">>}
\* the URL of the page: its `lang` parameter and its first path segment
AppUrls == {[lang |-> undefined, seg |-> <<>>],
            [lang |-> <<"z", "h">>, seg |-> <<>>]}

Init ==
    /\ pc = "loading"
    /\ rawData = <<>>
    /\ showAllRecords = TRUE
    /\ doctors = <<>>
    /\ ControlsInit
    /\ OutputInit
    /\ \E url \in AppUrls : urlLang = url.lang /\ pathSeg = url.seg

\* the event handled last, and the cascade as it stood when the event came
Handled(name) == last' = [event |-> name, before |-> Cascade]

\* the fetch answers 2xx with a JSON array: loadDoctors goes on
LoadDoctors ==
    /\ pc = "loading"
    /\ \E data \in AppInputs :
          /\ rawData' = data
          /\ Install(loaded(Page, data, showAllRecords))
    /\ pc' = "loaded"
    /\ Handled("load")
    /\ UNCHANGED <<showAllRecords, pathSeg, returned>>

\* the fetch fails or answers non-2xx: the catch block runs
LoadFails ==
    /\ pc = "loading"
    /\ Install(loadFailed(Page))
    /\ pc' = "failed"
    /\ Handled("loadError")
    /\ UNCHANGED <<rawData, showAllRecords, pathSeg, returned>>

\* the user edits the search box (part_000:491)
SearchInput ==
    /\ \E text \in AppQueries \ {searchInput} :
          Install(applyFilters([Page EXCEPT !.searchInput = text]))
    /\ Handled("input")
    /\ UNCHANGED <<pc, rawData, showAllRecords, pathSeg, returned>>

\* the user picks another specialty (part_000:492)
SpecialtyChange ==
    /\ \E i \in (1..Len(specialtySelect.opts)) \ {specialtySelect.idx} :
          Install(applyFilters([Page EXCEPT !.specialtySelect.idx = i]))
    /\ Handled("specialty")
    /\ UNCHANGED <<pc, rawData, showAllRecords, pathSeg, returned>>

\* the user picks another city (part_000:493)
CityChange ==
    /\ \E i \in (1..Len(citySelect.opts)) \ {citySelect.idx} :
          Install(cityChanged([Page EXCEPT !.citySelect.idx = i]))
    /\ Handled("city")
    /\ UNCHANGED <<pc, rawData, showAllRecords, pathSeg, returned>>

\* the user picks another district (part_000:494)
DistrictChange ==
    /\ \E i \in (1..Len(districtSelect.opts)) \ {districtSelect.idx} :
          Install(districtChanged([Page EXCEPT !.districtSelect.idx = i]))
    /\ Handled("district")
    /\ UNCHANGED <<pc, rawData, showAllRecords, pathSeg, returned>>

\* the user picks another area (part_000:495)
AreaChange ==
    /\ \E i \in (1..Len(areaSelect.opts)) \ {areaSelect.idx} :
          Install(applyFilters([Page EXCEPT !.areaSelect.idx = i]))
    /\ Handled("area")
    /\ UNCHANGED <<pc, rawData, showAllRecords, pathSeg, returned>>

\* the user clicks "Clear filters" (part_000:496-499)
ClearFilters ==
    /\ Install(cleared(Page))
    /\ Handled("clear")
    /\ UNCHANGED <<pc, rawData, showAllRecords, pathSeg, returned>>

\* the user picks the other display language (part_000:500-514)
LangChange ==
    /\ \E l \in {en, zhHK} \ {langSelect} :
          Install(langChanged([Page EXCEPT !.langSelect = l]))
    /\ Handled("lang")
    /\ UNCHANGED <<pc, rawData, showAllRecords, pathSeg, returned>>

Next ==
    \/ LoadDoctors
    \/ LoadFails
    \/ SearchInput
    \/ SpecialtyChange
    \/ CityChange
    \/ DistrictChange
    \/ AreaChange
    \/ ClearFilters
    \/ LangChange

Spec == Init /\ [][Next]_vars

----------------------------------------------------------------------------
(* Claims about the selector cascade, under Spec *)

\* C4: cascade reset. Once the listener of a city change has run, the
\* district and the area selections are empty, whatever was selected
\* before; once the listener of a district change has run, the area
\* selection is empty.
C4_CascadeReset ==
    /\ last.event = "city" => value(districtSelect) = <<>> /\ value(areaSelect) = <<>>
    /\ last.event = "district" => value(areaSelect) = <<>>

\* C4 witness: with a city, a district and an area selected, the city has
\* been changed to another city
C4_Witness ==
    /\ last.event = "city"
    /\ last.before.city # <<>> /\ last.before.district # <<>> /\ last.before.area # <<>>
    /\ value(citySelect) \notin {<<>>, last.before.city}

----------------------------------------------------------------------------
(* Claims about the listeners, under Spec *)

\* the Filter Selection: the free-text query and the four selections
Selection ==
    [query |-> searchInput, specialty |-> value(specialtySelect),
     city |-> value(citySelect), district |-> value(districtSelect),
     area |-> value(areaSelect)]

NoConstraint ==
    [query |-> <<>>, specialty |-> <<>>, city |-> <<>>, district |-> <<>>, area |-> <<>>]

\* C13: language change resets the Filter Selection. Once the listener of a
\* language change has run, the free-text query and the specialty, city,
\* district and area selections are all empty.
C13_LangChangeResetsSelection == last.event = "lang" => Selection = NoConstraint

\* C14: load failure is terminal. Once the load has failed, whatever the
\* user does, the Entity collection is empty and the page shows the "Error
\* loading data" state with the zero-result count the catch block wrote.
C14_LoadFailureTerminal ==
    pc = "failed" =>
        /\ doctors = <<>>
        /\ results = [kind |-> "errorLoadingData", list |-> <<>>]
        /\ resultCount = [kind |-> "zeroDoctors", n |-> 0]

\* C15: view consistency. Once the load has completed, in every state a
\* handler leaves, whatever events came before or after the completion, the
\* list shown is the Filter Engine's result for the Entity collection and
\* the current Filter Selection (the entities satisfying the text constraint
\* and the four categorical constraints, in input order), and the count
\* shown is its length.
C15_ViewConsistent ==
    pc = "loaded" =>
        /\ Len(results.list) = Cardinality(Passing)
        /\ \A k \in 1..Len(results.list) : results.list[k] = doctors[kth(k)]
        /\ results.kind = IF Passing = {} THEN "noDoctors" ELSE "cards"
        /\ resultCount = [kind |-> "doctorsCount", n |-> Cardinality(Passing)]

\* C15 witness: the query typed before the answer arrived is applied by the
\* load itself, which shows one of the two entities
C15_Witness ==
    /\ pc = "loaded" /\ last.event = "load"
    /\ searchInput # <<>>
    /\ Len(doctors) = 2 /\ Len(results.list) = 1


\* the entities without a city label in the active language
Unlabeled(d) == label(Page, d, "city", Or(langSelect, en)) = <<>>

\* the city options populateFilters appended: those after the static one
builtCityOptions == {i \in 2..Len(citySelect.opts) : TRUE}

UnlabeledGrouped ==
    (\E i \in 1..Len(doctors) : Unlabeled(doctors[i])) => has(citiesMap, <<>>)

UnlabeledOffered ==
    has(citiesMap, <<>>) => \E i \in builtCityOptions : citySelect.opts[i] = <<>>

UnlabeledChosen ==
    /\ citySelect.idx \in builtCityOptions
    /\ citySelect.opts[citySelect.idx] = <<>>

\* C18: unlabeled city bucket. An entity without a city label is grouped
\* under the empty-string key of the vocabulary, the key is offered as a
\* city option, and with that option chosen the result holds only entities
\* without a city label.
C18_UnlabeledCityBucket ==
    pc = "loaded" =>
        /\ UnlabeledGrouped
        /\ UnlabeledOffered
        /\ UnlabeledChosen =>
              \A k \in 1..Len(results.list) : Unlabeled(results.list[k])


\* the prioritized list of city labels for the active language
Preferred ==
    IF Or(langSelect, en) = en THEN <<HongKong, XiangGang>> ELSE <<XiangGang, HongKong>>

\* the city options that are label pl, case-insensitively
OptionsFor(pl) ==
    {i \in 1..Len(citySelect.opts) : toLowerCase(citySelect.opts[i]) = toLowerCase(pl)}

\* the district labels, in the active language, of the entities of a city
DistrictsOf(city) ==
    {label(Page, doctors[i], "district", Or(langSelect, en)) :
        i \in {j \in 1..Len(doctors) :
                 label(Page, doctors[j], "city", Or(langSelect, en)) = city}}

DefaultCitySelected ==
    /\ \A n \in 1..2 :
          (OptionsFor(Preferred[n]) # {} /\ \A m \in 1..(n - 1) : OptionsFor(Preferred[m]) = {})
              => /\ citySelect.idx \in OptionsFor(Preferred[n])
                 /\ {districtSelect.opts[i] : i \in 2..Len(districtSelect.opts)}
                       = DistrictsOf(value(citySelect))
    /\ (\A n \in 1..2 : OptionsFor(Preferred[n]) = {}) => value(citySelect) = <<>>

\* C19 as claimed: whenever the city vocabulary has been built for the
\* active language, at the load or by the language listener, the city
\* selection is the first preferred label present among the city options,
\* with the districts of that city as district options, and is empty when
\* none is present.
C19_DefaultCityAfterVocabulary ==
    last.event \in {"load", "lang"} => DefaultCitySelected

\* C19, amended: that is so after the load; the language listener builds
\* the vocabulary again and leaves the city selection empty.
C19_DefaultCityAtLoad ==
    /\ last.event = "load" => DefaultCitySelected
    /\ last.event = "lang" => value(citySelect) = <<>>

\* C19 witness: loaded in zh-HK with a Chinese and an English row of Hong
\* Kong, the page selects the Chinese label, the second of the options
C19_Witness ==
    /\ last.event = "load" /\ langSelect = zhHK
    /\ OptionsFor(HongKong) # {} /\ OptionsFor(XiangGang) # {}
    /\ value(citySelect) = XiangGang
    /\ Len(districtSelect.opts) = 2


\* the options of a select after its static one hold every label of labels
\* once, and nothing else
OffersExactly(sel, labels) ==
    /\ offered(sel) = labels
    /\ Len(sel.opts) = 1 + Cardinality(labels)

\* C20: option lists track the active language. In every state after a
\* successful load, whatever the user did before and after it, the
\* specialty options are the specialty labels of the entities resolved for
\* the active language and the city options their city labels (the ""
\* label of the entities without one included), each once.
C20_OptionsTrackLanguage ==
    pc = "loaded" =>
        /\ OffersExactly(specialtySelect,
                         {ResolvedOf(d, "specialties") : d \in Docs} \ {<<>>})
        /\ OffersExactly(citySelect, {ResolvedOf(d, "cities") : d \in Docs})

\* C20 witness: the page was loaded in zh-HK and the language then changed
\* to English; two specialties and two cities are offered
C20_Witness ==
    /\ pc = "loaded" /\ last.event = "lang"
    /\ urlLang = en /\ langSelect = en
    /\ Cardinality(offered(specialtySelect)) = 2
    /\ Cardinality(offered(citySelect)) = 2


\* the non-empty labels, in the active language, that the entities matching
\* city (all of them when city is "") have for field
LabelsOf(field, city) ==
    {label(Page, doctors[i], field, Or(langSelect, en)) :
        i \in {j \in Docs : \/ city = <<>>
                            \/ label(Page, doctors[j], "city", Or(langSelect, en)) = city}}
      \ {<<>>}

AllDistrictsOffered ==
    value(citySelect) = <<>> => OffersExactly(districtSelect, LabelsOf("district", <<>>))

AreasOfCityOffered ==
    value(districtSelect) = <<>> =>
        OffersExactly(areaSelect, LabelsOf("area", value(citySelect)))

\* C21: cascade with no upstream constraint. With no city selected the
\* district options are the non-empty district labels of all entities, and
\* with no district selected the area options are the non-empty area labels
\* of the entities of the selected city (of all entities when none is
\* selected), each once.
C21_CascadeNoUpstream ==
    pc = "loaded" => AllDistrictsOffered /\ AreasOfCityOffered

====
